---- MODULE Spec2Model ----
(***************************************************************************)
(* The asynchronous I/O completion object (Aio) of nng-rs, src/src/aio.rs. *)
(* One shared completion cell (Inner), the callback-owning handles held by *)
(* application threads, the callback-internal handle cb_aio used by the    *)
(* trampoline on engine threads, and the foreign engine's aio object.      *)
(***************************************************************************)
EXTENDS Integers, Sequences, FiniteSets, TLC

\* Bounds of the model.
MaxOps == 2      \* engine starter calls made during a behaviour
MaxMsgs == 2     \* message buffers allocated during a behaviour
MaxHandles == 2  \* callback-owning handles alive at the same time
MaxWaiters == 1  \* application threads inside wait at the same time

\* Application threads are interchangeable: each callback-owning handle is
\* held by one of them, and "app" names whichever of them makes a call.
AppCaller == "app"
EngOrder == <<"e1", "e2">>    \* engine worker threads running the trampoline
Eng == {EngOrder[k] : k \in 1..Len(EngOrder)}
Callers == {AppCaller} \cup Eng
NoThread == "none"

NoMsg == 0                   \* null message pointer
Msgs == 1..MaxMsgs
NoErr == "none"

States == {"Building", "Inactive", "Sending", "Receiving", "Sleeping"}

VARIABLES
    state,      \* Inner.state
    handle,     \* Inner.handle: "dangling" before allocation, "aio" after
    lock,       \* the thread holding the cell's mutex, or NoThread
    phase,      \* "new" before Aio::new ran, "live" after Ok, after Err
                \* "failed", or "leaked" when the engine had returned an aio
    handles,    \* callback-owning handles: how many are "idle" (held, not being
                \* dropped), "waiting" (their thread is inside nng_aio_wait),
                \* "stopping" (their drop is inside nng_aio_stop) and
                \* "fields" (Drop::drop returned, the fields not yet dropped)
    cbStrong,   \* strong count of the callback Arc
    closure,    \* the boxed bounce closure: "none", "live" or "freed"
    stopRet,    \* a call of nng_aio_stop on the aio has returned
    ptrCopy,    \* the pointer the threads inside nng_aio_wait or
                \* nng_aio_stop read from the cell before the call, "none"
                \* when no thread is inside either
    pc,         \* position of each engine thread
    held,       \* held[t]: the message buffers caller t owns
    nextMsg,    \* next buffer to allocate
    gone,       \* buffers released: freed by their owner or sent by the engine
    ops,        \* the operations the engine's starters were called for, in order
    engOps,     \* indices of ops outstanding in the engine
    engCancel,  \* outstanding operations whose abort was requested
    engOwned,   \* buffers the engine owns
    aioResult,  \* the aio's result slot (nng_aio_result)
    aioMsg,     \* the aio's message slot (nng_aio_get_msg / nng_aio_set_msg)
    tasks,      \* completions whose callback task is dispatched, not yet run
    stopped,    \* nng_aio_stop was called on the aio
    freed,      \* nng_aio_free was called on the aio
    timeout,    \* the aio's timeout (nng_aio_set_timeout): "infinite" or "ms"
    timer,      \* the timer of the outstanding operation: "none", running
                \* ("dur" a sleep's duration, "to" the deadline of the
                \* timeout) or run out ("due_dur", "due_to")
    handled,    \* operations whose completion the trampoline has classified
    invoked,    \* invoked[i]: invocations of the user callback for operation i
    cur,        \* cur[e]: what the trampoline on engine thread e is handling
    cbDid,      \* cbDid[e]: the running callback already made its start call
    last,       \* the call into the wrapper that has just returned, if any;
                \* NotRecorded throughout when calls are not recorded
    uaf,        \* the trampoline ran on a released closure
    aborted,    \* the process aborted
    socket,     \* the Socket: NoSocket, or the protocol of the engine socket
                \* its handle names and its nonblocking flag
    sret,       \* the call of Socket::new or Socket::send that has just
                \* returned, if any
    aio_res,    \* the AioResult a caller has in hand, NoRes when it has none
    converted,  \* the Result<Option<Message>> the last conversion returned
    dropped,    \* buffers dropped by From<AioResult>::from
    taken       \* buffers the caller took out of an earlier converted Result

vars == <<state, handle, lock, phase, handles, cbStrong, closure, stopRet,
          ptrCopy,
          pc, held,
          nextMsg, gone, ops, engOps, engCancel, engOwned,
          aioResult, aioMsg, tasks, stopped, freed, handled, invoked, cur,
          cbDid, last, uaf, aborted, timeout, timer, socket, sret,
          aio_res, converted, dropped, taken>>

cellVars == <<state, handle, lock, phase>>
ownVars == <<handles, cbStrong, closure, stopRet>>
msgVars == <<held, nextMsg, gone>>
engVars == <<ops, engOps, engCancel, engOwned, aioResult, aioMsg, tasks,
             stopped, freed>>
trampVars == <<handled, invoked, cur, cbDid>>
timeVars == <<timeout, timer>>
sockVars == <<socket, sret>>
convVars == <<aio_res, converted, dropped, taken>>
aioVars == <<state, handle, lock, phase, handles, cbStrong, closure, stopRet,
             ptrCopy,
             pc, held,
             nextMsg, gone, ops, engOps, engCancel, engOwned,
             aioResult, aioMsg, tasks, stopped, freed, handled, invoked, cur,
             cbDid, last, uaf, aborted, timeout, timer>>

----------------------------------------------------------------------------
\* Values

\* AioResult
Res(tag, msg, err) == [tag |-> tag, msg |-> msg, err |-> err]

\* No AioResult in hand; no converted Result yet.
NoRes == Res("none", NoMsg, NoErr)
NoConv == [val |-> "none", msg |-> NoMsg, err |-> NoErr]

\* The log keeps what an operation was until its callback has returned.
Retired == [kind |-> "done", msg |-> NoMsg]

NoCur == [op |-> 0, st |-> "Inactive", rv |-> 0, res |-> Res("none", NoMsg, NoErr)]

NoCall == [by |-> "none", call |-> "none", pre |-> "Building", busy |-> FALSE,
           fresh |-> FALSE, val |-> "none", same |-> FALSE,
           starter |-> "none", eng |-> FALSE]

\* Engine status codes: 0 success, NNG_ETIMEDOUT, NNG_ECANCELED.
RvCodes == {0, 5, 20}

\* Error::from_code
ErrorFromCode(rv) ==
    CASE rv = 2 -> "OutOfMemory"
      [] rv = 5 -> "TimedOut"
      [] rv = 8 -> "TryAgain"
      [] rv = 20 -> "Canceled"
      [] OTHER -> "Unknown"

NotRecorded == [NoCall EXCEPT !.call = "off"]

NoSocket == [proto |-> "none", nonblocking |-> FALSE]

NoSockCall == [call |-> "none", proto |-> "none", opened |-> "none", rv |-> 0,
               val |-> "none", arg |-> NoMsg, msg |-> NoMsg, err |-> NoErr]

\* What last becomes in a step that is no call into the wrapper.
Quiet == IF last = NotRecorded THEN NotRecorded ELSE NoCall

\* An operation was started and the trampoline has not yet handled its
\* completion.
Busy == \E i \in 1..Len(ops) : i \notin handled

\* The caller is a callback and no operation was started since the one whose
\* completion it is handling.
Fresh(t) == t \in Eng /\ cur[t].op = Len(ops)

\* The record of a call into the wrapper: whether an application thread or a
\* callback called, what, the state it found, what it returned, whether the
\* buffer it returned is the buffer it was given (arg and msg, NoMsg for
\* none), the engine starter it called, and whether it changed anything in
\* the engine.
Ret(t, call, arg, val, msg, starter) ==
    IF last = NotRecorded THEN NotRecorded ELSE
    [by |-> IF t \in Eng THEN "cb" ELSE "app", call |-> call,
     pre |-> state, busy |-> Busy, fresh |-> Fresh(t), val |-> val,
     same |-> (msg = arg), starter |-> starter,
     eng |-> (ops' # ops \/ engOps' # engOps \/ aioMsg' # aioMsg
              \/ engOwned' # engOwned)]

----------------------------------------------------------------------------
InitCell ==
    /\ state = "Building"
    /\ handle = "dangling"
    /\ lock = NoThread
    /\ phase = "new"
    /\ handles = [k \in {"idle", "waiting", "stopping", "fields"} |-> 0]
    /\ cbStrong = 0
    /\ closure = "none"
    /\ stopRet = FALSE
    /\ ptrCopy = "none"
    /\ pc = [e \in Eng |-> "idle"]
    /\ held = [t \in Callers |-> {}]
    /\ nextMsg = 1
    /\ gone = {}
    /\ ops = <<>>
    /\ engOps = {}
    /\ engCancel = {}
    /\ engOwned = {}
    /\ aioResult = 0
    /\ aioMsg = NoMsg
    /\ tasks = {}
    /\ stopped = FALSE
    /\ freed = FALSE
    /\ handled = {}
    /\ invoked = [i \in 1..MaxOps |-> 0]
    /\ cur = [e \in Eng |-> NoCur]
    /\ cbDid = [e \in Eng |-> FALSE]
    /\ uaf = FALSE
    /\ aborted = FALSE
    /\ timeout = "infinite"
    /\ timer = "none"
    /\ socket = NoSocket
    /\ sret = NoSockCall
    /\ aio_res = NoRes
    /\ converted = NoConv
    /\ dropped = {}
    /\ taken = {}

\* The program alone, and the program with its calls recorded.
Init == InitCell /\ last = NotRecorded

InitCalls == InitCell /\ last = NoCall


----------------------------------------------------------------------------
\* The foreign engine's interface, as the wrapper calls it.

\* The timers an operation can start with. A sleep runs for its duration; the
\* aio's timeout, when one is set, is a deadline for every operation, and for
\* a sleep either of the two can be the first to run out.
Timers(kind) ==
    IF kind = "sleep"
    THEN (IF timeout = "ms" THEN {"dur", "to"} ELSE {"dur"})
    ELSE (IF timeout = "ms" THEN {"to"} ELSE {"none"})

\* nng_sleep_aio, nng_send_aio, nng_recv_aio, nng_ctx_send, nng_ctx_recv:
\* the starter returns at once; the operation is outstanding until the engine
\* completes it. Once the aio is stopped no new operation can start.
EngineStart(kind, m) ==
    /\ ops' = Append(ops, [kind |-> kind, msg |-> m])
    /\ engOps' = IF stopped THEN engOps ELSE engOps \cup {Len(ops) + 1}
    /\ timer' \in IF stopped THEN {timer} ELSE Timers(kind)

\* nng_aio_cancel: asks the engine to abort whatever is outstanding.
EngineCancel == engOps

----------------------------------------------------------------------------
\* Callers of the wrapper

\* An application thread calls through the handle it holds; an engine thread
\* calls through cb_aio from inside the user callback.
CanCall(t) ==
    /\ ~aborted
    /\ \/ t = AppCaller /\ handles["idle"] > 0
       \/ t \in Eng /\ pc[t] = "callback" /\ ~cbDid[t]

\* cancel asks the engine again for what it was already asked, so a running
\* callback can call it whatever else it has called.
CanCancel(t) ==
    /\ ~aborted
    /\ \/ t = AppCaller /\ handles["idle"] > 0
       \/ t \in Eng /\ pc[t] = "callback"

Did(t) == IF t \in Eng THEN [cbDid EXCEPT ![t] = TRUE] ELSE cbDid

\* The buffers a caller can pass to send: one it holds or a new one.
Sendable(t) == held[t] \cup (IF nextMsg <= MaxMsgs THEN {nextMsg} ELSE {})

Alloc(m) == IF m = nextMsg THEN nextMsg + 1 ELSE nextMsg

----------------------------------------------------------------------------
\* Aio::new and Aio::alloc_trampoline

\* Drop for Inner: the engine's free is called unless the cell is Building.
InnerDropFrees(st) == st # "Building"

\* alloc_trampoline without the test for a pointer returned with a failure.
AllocResult_NoCheck(rv, ptr) ==
    IF rv # 0 THEN ErrorFromCode(rv) ELSE "Ok"

\* alloc_trampoline's result for the engine's (rv, aio) answer.
AllocResult(rv, ptr) ==
    IF rv # 0 /\ ptr # "null" THEN "Unknown"
    ELSE IF rv # 0 THEN ErrorFromCode(rv)
    ELSE "Ok"

Aio_new(rv, ptr) ==
    /\ UNCHANGED <<sockVars, convVars, ptrCopy>>
    /\ ~aborted
    /\ phase = "new"
    /\ IF AllocResult(rv, ptr) = "Ok"
       THEN /\ handle' = ptr
            /\ state' = "Inactive"
            /\ phase' = "live"
            /\ handles' = [handles EXCEPT !["idle"] = 1]
            /\ cbStrong' = 1
            /\ closure' = "live"
            /\ freed' = freed
       ELSE \* `?` returns the error: cb_aio and the cell are dropped; an
            \* aio the engine returned with its failure code is left alone
            /\ phase' = IF ptr = "null" THEN "failed" ELSE "leaked"
            /\ freed' = InnerDropFrees(state)
            /\ UNCHANGED <<handle, state, handles, cbStrong, closure>>
    /\ UNCHANGED stopRet
    /\ UNCHANGED <<lock, pc, msgVars, ops, engOps, engCancel, engOwned,
                   aioResult, aioMsg, tasks, stopped, trampVars, uaf, aborted>>
    /\ last' = Ret(AppCaller, "new", NoMsg, AllocResult(rv, ptr), NoMsg, "none")
    /\ UNCHANGED timeVars

----------------------------------------------------------------------------
\* Start operations

\* Aio::sleep leaving the state as it found it.
Aio_sleep_NoState(t) ==
    /\ UNCHANGED <<sockVars, convVars, ptrCopy>>
    /\ CanCall(t)
    /\ lock = NoThread
    /\ IF state = "Inactive"
       THEN /\ Len(ops) < MaxOps
            /\ EngineStart("sleep", NoMsg)
            /\ state' = state
            /\ UNCHANGED <<aioMsg, engOwned>>
            /\ last' = Ret(t, "sleep", NoMsg, "Ok", NoMsg, "nng_sleep_aio")
       ELSE /\ UNCHANGED <<state, ops, engOps, aioMsg, engOwned, timer>>
            /\ last' = Ret(t, "sleep", NoMsg, "TryAgain", NoMsg, "none")
    /\ cbDid' = Did(t)
    /\ UNCHANGED timeout
    /\ UNCHANGED <<handle, lock, phase, ownVars, pc, msgVars, engCancel,
                   aioResult, tasks, stopped, freed, handled, invoked, cur,
                   uaf, aborted>>

\* Aio::sleep without the state check.
Aio_sleep_Unchecked(t) ==
    /\ UNCHANGED <<sockVars, convVars, ptrCopy>>
    /\ CanCall(t)
    /\ lock = NoThread
    /\ Len(ops) < MaxOps
    /\ EngineStart("sleep", NoMsg)
    /\ state' = "Sleeping"
    /\ UNCHANGED <<aioMsg, engOwned>>
    /\ last' = Ret(t, "sleep", NoMsg, "Ok", NoMsg, "nng_sleep_aio")
    /\ cbDid' = Did(t)
    /\ UNCHANGED timeout
    /\ UNCHANGED <<handle, lock, phase, ownVars, pc, msgVars, engCancel,
                   aioResult, tasks, stopped, freed, handled, invoked, cur,
                   uaf, aborted>>

Aio_sleep(t) ==
    /\ UNCHANGED <<sockVars, convVars, ptrCopy>>
    /\ CanCall(t)
    /\ lock = NoThread
    /\ IF state = "Inactive"
       THEN /\ Len(ops) < MaxOps
            /\ EngineStart("sleep", NoMsg)
            /\ state' = "Sleeping"
            /\ UNCHANGED <<aioMsg, engOwned>>
            /\ last' = Ret(t, "sleep", NoMsg, "Ok", NoMsg, "nng_sleep_aio")
       ELSE /\ UNCHANGED <<state, ops, engOps, aioMsg, engOwned, timer>>
            /\ last' = Ret(t, "sleep", NoMsg, "TryAgain", NoMsg, "none")
    /\ cbDid' = Did(t)
    /\ UNCHANGED timeout
    /\ UNCHANGED <<handle, lock, phase, ownVars, pc, msgVars, engCancel,
                   aioResult, tasks, stopped, freed, handled, invoked, cur,
                   uaf, aborted>>

\* Aio::send_socket without nng_aio_set_msg: the buffer is given up but the
\* aio's message slot keeps what it held.
Aio_send_socket_NoSetMsg(t, m) ==
    /\ UNCHANGED <<sockVars, convVars, ptrCopy>>
    /\ CanCall(t)
    /\ lock = NoThread
    /\ m \in Sendable(t)
    /\ nextMsg' = Alloc(m)
    /\ IF state = "Inactive"
       THEN /\ Len(ops) < MaxOps
            /\ aioMsg' = aioMsg
            /\ engOwned' = engOwned \cup {m}
            /\ EngineStart("send", m)
            /\ state' = "Sending"
            /\ held' = [held EXCEPT ![t] = @ \ {m}]
            /\ last' = Ret(t, "send_socket", m, "Ok", NoMsg, "nng_send_aio")
       ELSE /\ held' = [held EXCEPT ![t] = @ \cup {m}]
            /\ UNCHANGED <<state, ops, engOps, aioMsg, engOwned, timer>>
            /\ last' = Ret(t, "send_socket", m, "TryAgain", m, "none")
    /\ cbDid' = Did(t)
    /\ UNCHANGED timeout
    /\ UNCHANGED <<handle, lock, phase, ownVars, pc, gone, engCancel,
                   aioResult, tasks, stopped, freed, handled, invoked, cur,
                   uaf, aborted>>

Aio_send_socket(t, m) ==
    /\ UNCHANGED <<sockVars, convVars, ptrCopy>>
    /\ CanCall(t)
    /\ lock = NoThread
    /\ m \in Sendable(t)
    /\ nextMsg' = Alloc(m)
    /\ IF state = "Inactive"
       THEN /\ Len(ops) < MaxOps
            /\ aioMsg' = m
            /\ engOwned' = engOwned \cup {m}
            /\ EngineStart("send", m)
            /\ state' = "Sending"
            /\ held' = [held EXCEPT ![t] = @ \ {m}]
            /\ last' = Ret(t, "send_socket", m, "Ok", NoMsg, "nng_send_aio")
       ELSE /\ held' = [held EXCEPT ![t] = @ \cup {m}]
            /\ UNCHANGED <<state, ops, engOps, aioMsg, engOwned, timer>>
            /\ last' = Ret(t, "send_socket", m, "TryAgain", m, "none")
    /\ cbDid' = Did(t)
    /\ UNCHANGED timeout
    /\ UNCHANGED <<handle, lock, phase, ownVars, pc, gone, engCancel,
                   aioResult, tasks, stopped, freed, handled,
                   invoked, cur, uaf, aborted>>

\* Aio::recv_socket refusing only when a receive is in progress.
Aio_recv_socket_WrongCheck(t) ==
    /\ UNCHANGED <<sockVars, convVars, ptrCopy>>
    /\ CanCall(t)
    /\ lock = NoThread
    /\ IF state # "Receiving"
       THEN /\ Len(ops) < MaxOps
            /\ EngineStart("recv", NoMsg)
            /\ state' = "Receiving"
            /\ UNCHANGED <<aioMsg, engOwned>>
            /\ last' = Ret(t, "recv_socket", NoMsg, "Ok", NoMsg, "nng_recv_aio")
       ELSE /\ UNCHANGED <<state, ops, engOps, aioMsg, engOwned, timer>>
            /\ last' = Ret(t, "recv_socket", NoMsg, "TryAgain", NoMsg, "none")
    /\ cbDid' = Did(t)
    /\ UNCHANGED timeout
    /\ UNCHANGED <<handle, lock, phase, ownVars, pc, msgVars, engCancel,
                   aioResult, tasks, stopped, freed, handled, invoked, cur,
                   uaf, aborted>>

Aio_recv_socket(t) ==
    /\ UNCHANGED <<sockVars, convVars, ptrCopy>>
    /\ CanCall(t)
    /\ lock = NoThread
    /\ IF state = "Inactive"
       THEN /\ Len(ops) < MaxOps
            /\ EngineStart("recv", NoMsg)
            /\ state' = "Receiving"
            /\ UNCHANGED <<aioMsg, engOwned>>
            /\ last' = Ret(t, "recv_socket", NoMsg, "Ok", NoMsg, "nng_recv_aio")
       ELSE /\ UNCHANGED <<state, ops, engOps, aioMsg, engOwned, timer>>
            /\ last' = Ret(t, "recv_socket", NoMsg, "TryAgain", NoMsg, "none")
    /\ cbDid' = Did(t)
    /\ UNCHANGED timeout
    /\ UNCHANGED <<handle, lock, phase, ownVars, pc, msgVars, engCancel,
                   aioResult, tasks, stopped, freed, handled, invoked, cur,
                   uaf, aborted>>

\* Aio::send_ctx returning TryAgain without the buffer.
Aio_send_ctx_DropsMsg(t, m) ==
    /\ UNCHANGED <<sockVars, convVars, ptrCopy>>
    /\ CanCall(t)
    /\ lock = NoThread
    /\ m \in Sendable(t)
    /\ nextMsg' = Alloc(m)
    /\ IF state = "Inactive"
       THEN /\ Len(ops) < MaxOps
            /\ aioMsg' = m
            /\ engOwned' = engOwned \cup {m}
            /\ EngineStart("send", m)
            /\ state' = "Sending"
            /\ held' = [held EXCEPT ![t] = @ \ {m}]
            /\ last' = Ret(t, "send_ctx", m, "Ok", NoMsg, "nng_ctx_send")
       ELSE /\ held' = [held EXCEPT ![t] = @ \ {m}]
            /\ UNCHANGED <<state, ops, engOps, aioMsg, engOwned, timer>>
            /\ last' = Ret(t, "send_ctx", m, "TryAgain", NoMsg, "none")
    /\ cbDid' = Did(t)
    /\ UNCHANGED timeout
    /\ UNCHANGED <<handle, lock, phase, ownVars, pc, gone, engCancel,
                   aioResult, tasks, stopped, freed, handled,
                   invoked, cur, uaf, aborted>>

\* Aio::send_ctx setting the aio's message before checking the state.
Aio_send_ctx_SetMsgFirst(t, m) ==
    /\ UNCHANGED <<sockVars, convVars, ptrCopy>>
    /\ CanCall(t)
    /\ lock = NoThread
    /\ m \in Sendable(t)
    /\ nextMsg' = Alloc(m)
    /\ aioMsg' = m
    /\ IF state = "Inactive"
       THEN /\ Len(ops) < MaxOps
            /\ engOwned' = engOwned \cup {m}
            /\ EngineStart("send", m)
            /\ state' = "Sending"
            /\ held' = [held EXCEPT ![t] = @ \ {m}]
            /\ last' = Ret(t, "send_ctx", m, "Ok", NoMsg, "nng_ctx_send")
       ELSE /\ held' = [held EXCEPT ![t] = @ \cup {m}]
            /\ UNCHANGED <<state, ops, engOps, engOwned, timer>>
            /\ last' = Ret(t, "send_ctx", m, "TryAgain", m, "none")
    /\ cbDid' = Did(t)
    /\ UNCHANGED timeout
    /\ UNCHANGED <<handle, lock, phase, ownVars, pc, gone, engCancel,
                   aioResult, tasks, stopped, freed, handled, invoked, cur,
                   uaf, aborted>>

Aio_send_ctx(t, m) ==
    /\ UNCHANGED <<sockVars, convVars, ptrCopy>>
    /\ CanCall(t)
    /\ lock = NoThread
    /\ m \in Sendable(t)
    /\ nextMsg' = Alloc(m)
    /\ IF state = "Inactive"
       THEN /\ Len(ops) < MaxOps
            /\ aioMsg' = m
            /\ engOwned' = engOwned \cup {m}
            /\ EngineStart("send", m)
            /\ state' = "Sending"
            /\ held' = [held EXCEPT ![t] = @ \ {m}]
            /\ last' = Ret(t, "send_ctx", m, "Ok", NoMsg, "nng_ctx_send")
       ELSE /\ held' = [held EXCEPT ![t] = @ \cup {m}]
            /\ UNCHANGED <<state, ops, engOps, aioMsg, engOwned, timer>>
            /\ last' = Ret(t, "send_ctx", m, "TryAgain", m, "none")
    /\ cbDid' = Did(t)
    /\ UNCHANGED timeout
    /\ UNCHANGED <<handle, lock, phase, ownVars, pc, gone, engCancel,
                   aioResult, tasks, stopped, freed, handled,
                   invoked, cur, uaf, aborted>>

\* Aio::recv_ctx calling the starter whatever the state.
Aio_recv_ctx_StartAnyway(t) ==
    /\ UNCHANGED <<sockVars, convVars, ptrCopy>>
    /\ CanCall(t)
    /\ lock = NoThread
    /\ IF state = "Inactive"
       THEN /\ Len(ops) < MaxOps
            /\ EngineStart("recv", NoMsg)
            /\ state' = "Receiving"
            /\ UNCHANGED <<aioMsg, engOwned>>
            /\ last' = Ret(t, "recv_ctx", NoMsg, "Ok", NoMsg, "nng_ctx_recv")
       ELSE /\ Len(ops) < MaxOps
            /\ EngineStart("recv", NoMsg)
            /\ UNCHANGED <<state, aioMsg, engOwned>>
            /\ last' = Ret(t, "recv_ctx", NoMsg, "TryAgain", NoMsg, "none")
    /\ cbDid' = Did(t)
    /\ UNCHANGED timeout
    /\ UNCHANGED <<handle, lock, phase, ownVars, pc, msgVars, engCancel,
                   aioResult, tasks, stopped, freed, handled, invoked, cur,
                   uaf, aborted>>

\* Aio::recv_ctx leaving the state as it is after the starter was called.
Aio_recv_ctx_NoState(t) ==
    /\ UNCHANGED <<sockVars, convVars, ptrCopy>>
    /\ CanCall(t)
    /\ lock = NoThread
    /\ IF state = "Inactive"
       THEN /\ Len(ops) < MaxOps
            /\ EngineStart("recv", NoMsg)
            /\ state' = state
            /\ UNCHANGED <<aioMsg, engOwned>>
            /\ last' = Ret(t, "recv_ctx", NoMsg, "Ok", NoMsg, "nng_ctx_recv")
       ELSE /\ UNCHANGED <<state, ops, engOps, aioMsg, engOwned, timer>>
            /\ last' = Ret(t, "recv_ctx", NoMsg, "TryAgain", NoMsg, "none")
    /\ cbDid' = Did(t)
    /\ UNCHANGED timeout
    /\ UNCHANGED <<handle, lock, phase, ownVars, pc, msgVars, engCancel,
                   aioResult, tasks, stopped, freed, handled, invoked, cur,
                   uaf, aborted>>

Aio_recv_ctx(t) ==
    /\ UNCHANGED <<sockVars, convVars, ptrCopy>>
    /\ CanCall(t)
    /\ lock = NoThread
    /\ IF state = "Inactive"
       THEN /\ Len(ops) < MaxOps
            /\ EngineStart("recv", NoMsg)
            /\ state' = "Receiving"
            /\ UNCHANGED <<aioMsg, engOwned>>
            /\ last' = Ret(t, "recv_ctx", NoMsg, "Ok", NoMsg, "nng_ctx_recv")
       ELSE /\ UNCHANGED <<state, ops, engOps, aioMsg, engOwned, timer>>
            /\ last' = Ret(t, "recv_ctx", NoMsg, "TryAgain", NoMsg, "none")
    /\ cbDid' = Did(t)
    /\ UNCHANGED timeout
    /\ UNCHANGED <<handle, lock, phase, ownVars, pc, msgVars, engCancel,
                   aioResult, tasks, stopped, freed, handled, invoked, cur,
                   uaf, aborted>>

----------------------------------------------------------------------------
\* Aio::cancel

\* Aio::cancel calling the engine's stop in place of its cancel.
Aio_cancel_Stop(t) ==
    /\ UNCHANGED <<sockVars, convVars, ptrCopy>>
    /\ CanCancel(t)
    /\ lock = NoThread
    /\ engCancel' = EngineCancel
    /\ stopped' = TRUE
    /\ cbDid' = Did(t)
    /\ UNCHANGED timeVars
    /\ UNCHANGED <<cellVars, ownVars, pc, msgVars, ops, engOps, engOwned,
                   aioResult, aioMsg, tasks, freed, handled, invoked,
                   cur, uaf, aborted>>
    /\ last' = Ret(t, "cancel", NoMsg, "unit", NoMsg, "none")

Aio_cancel(t) ==
    /\ UNCHANGED <<sockVars, convVars, ptrCopy>>
    /\ CanCancel(t)
    /\ lock = NoThread
    /\ engCancel' = EngineCancel
    /\ cbDid' = Did(t)
    /\ UNCHANGED timeVars
    /\ UNCHANGED <<cellVars, ownVars, pc, msgVars, ops, engOps, engOwned,
                   aioResult, aioMsg, tasks, stopped, freed, handled, invoked,
                   cur, uaf, aborted>>
    /\ last' = Ret(t, "cancel", NoMsg, "unit", NoMsg, "none")

----------------------------------------------------------------------------
\* Aio::wait

\* The pointer read as the placeholder the cell was created with.
PtrRead_Dangling == "dangling"

\* self.inner.lock().unwrap().handle.ptr(): the pointer a thread reads from
\* the cell before it calls nng_aio_wait or nng_aio_stop with it.
PtrRead == handle

\* Aio::wait holding the cell's lock across nng_aio_wait.
WaitLock_Held == AppCaller

\* The holder of the cell's lock while the thread is inside nng_aio_wait: the
\* guard taken to read the pointer is released at the end of that statement.
WaitLock == NoThread

\* nng_aio_wait returns once nothing is outstanding and no callback runs.
WaitDone == engOps = {} /\ tasks = {} /\ \A e \in Eng : pc[e] = "idle"

\* Aio::wait calling nng_aio_cancel before it waits.
Aio_wait_Cancels ==
    /\ UNCHANGED <<sockVars, convVars>>
    /\ ~aborted
    /\ handles["idle"] > 0
    /\ handles["waiting"] < MaxWaiters
    /\ lock = NoThread
    /\ lock' = WaitLock
    /\ ptrCopy' = PtrRead
    /\ engCancel' = EngineCancel
    /\ handles' = [handles EXCEPT !["idle"] = @ - 1, !["waiting"] = @ + 1]
    /\ last' = Quiet
    /\ UNCHANGED timeVars
    /\ UNCHANGED <<state, handle, phase, cbStrong, closure, stopRet, pc,
                   msgVars, ops, engOps, engOwned, aioResult, aioMsg, tasks,
                   stopped, freed, trampVars, uaf, aborted>>

\* An application thread locks the cell, reads the pointer and calls
\* nng_aio_wait.
Aio_wait ==
    /\ UNCHANGED <<sockVars, convVars>>
    /\ ~aborted
    /\ handles["idle"] > 0
    /\ handles["waiting"] < MaxWaiters
    /\ lock = NoThread
    /\ lock' = WaitLock
    /\ ptrCopy' = PtrRead
    /\ handles' = [handles EXCEPT !["idle"] = @ - 1, !["waiting"] = @ + 1]
    /\ last' = Quiet
    /\ UNCHANGED timeVars
    /\ UNCHANGED <<state, handle, phase, cbStrong, closure, stopRet, pc,
                   msgVars, engVars, trampVars, uaf, aborted>>

\* nng_aio_wait returns and with it Aio::wait.
WaitReturn ==
    /\ UNCHANGED <<sockVars, convVars>>
    /\ ~aborted
    /\ handles["waiting"] > 0
    /\ WaitDone
    /\ handles' = [handles EXCEPT !["waiting"] = @ - 1, !["idle"] = @ + 1]
    /\ ptrCopy' = IF handles["waiting"] + handles["stopping"] > 1
                  THEN ptrCopy ELSE "none"
    /\ lock' = IF lock = AppCaller THEN NoThread ELSE lock
    /\ UNCHANGED timeVars
    /\ UNCHANGED <<state, handle, phase, cbStrong, closure, stopRet, pc,
                   msgVars, engVars, trampVars, uaf, aborted>>
    /\ last' = Ret(AppCaller, "wait", NoMsg, "unit", NoMsg, "none")

----------------------------------------------------------------------------
\* Aio::set_timeout

\* duration_to_nng: None is the engine's infinite duration, Some(d) is d in
\* milliseconds.
DurationToNng(dur) == IF dur = "None" THEN "infinite" ELSE "ms"

\* Aio::set_timeout resetting the state.
Aio_set_timeout_Reset(t, dur) ==
    /\ UNCHANGED <<sockVars, convVars, ptrCopy>>
    /\ CanCall(t)
    /\ lock = NoThread
    /\ timeout' = DurationToNng(dur)
    /\ state' = "Inactive"
    /\ cbDid' = Did(t)
    /\ UNCHANGED <<handle, lock, phase, ownVars, pc, msgVars, engVars, handled,
                   invoked, cur, uaf, aborted, timer>>
    /\ last' = Ret(t, "set_timeout", NoMsg, "unit", NoMsg, "none")

Aio_set_timeout(t, dur) ==
    /\ UNCHANGED <<sockVars, convVars, ptrCopy>>
    /\ CanCall(t)
    /\ lock = NoThread
    /\ timeout' = DurationToNng(dur)
    /\ cbDid' = Did(t)
    /\ UNCHANGED <<cellVars, ownVars, pc, msgVars, engVars, handled, invoked,
                   cur, uaf, aborted, timer>>
    /\ last' = Ret(t, "set_timeout", NoMsg, "unit", NoMsg, "none")

----------------------------------------------------------------------------
\* Aio::try_clone

\* Every handle taken to own the callback.
HasCallback_Always(t) == TRUE

\* Whether the handle a thread calls through owns the callback: the handles
\* of application threads do (Some), cb_aio does not (None).
HasCallback(t) == t = AppCaller

TotalHandles ==
    handles["idle"] + handles["waiting"] + handles["stopping"]
    + handles["fields"]

Aio_try_clone(t) ==
    /\ UNCHANGED <<sockVars, convVars, ptrCopy>>
    /\ CanCall(t)
    /\ IF HasCallback(t)
       THEN /\ TotalHandles < MaxHandles
            /\ handles' = [handles EXCEPT !["idle"] = @ + 1]
            /\ cbStrong' = cbStrong + 1
       ELSE UNCHANGED <<handles, cbStrong>>
    /\ cbDid' = Did(t)
    /\ UNCHANGED timeVars
    /\ UNCHANGED <<cellVars, closure, stopRet, pc, msgVars, engVars, handled,
                   invoked, cur, uaf, aborted>>
    /\ last' = Ret(t, "try_clone", NoMsg,
                   IF HasCallback(t) THEN "Some" ELSE "None", NoMsg, "none")

----------------------------------------------------------------------------
\* The engine completes an operation and dispatches the callback task.

\* The status codes the engine can complete operation i with: NNG_ECANCELED
\* once its abort was requested, NNG_ETIMEDOUT once its deadline has passed,
\* and 0 for a sleep whose duration has run out and for a send or a recv
\* whose deadline has not passed.
CompletionCodes(i) ==
    (IF i \in engCancel THEN {20} ELSE {})
    \cup (IF timer = "due_to" THEN {5} ELSE {})
    \cup (IF ops[i].kind = "sleep"
          THEN (IF timer = "due_dur" THEN {0} ELSE {})
          ELSE (IF timer = "due_to" THEN {} ELSE {0}))

\* The running timer of the outstanding operation runs out.
TimerExpire ==
    /\ UNCHANGED <<sockVars, convVars, ptrCopy>>
    /\ ~aborted
    /\ engOps # {}
    /\ timer \in {"dur", "to"}
    /\ timer' = IF timer = "dur" THEN "due_dur" ELSE "due_to"
    /\ last' = Quiet
    /\ UNCHANGED <<cellVars, ownVars, pc, msgVars, engVars, trampVars, uaf,
                   aborted, timeout>>

EngineComplete(i, rv) ==
    /\ UNCHANGED <<sockVars, convVars, ptrCopy>>
    /\ ~aborted
    /\ i \in engOps
    /\ rv \in CompletionCodes(i)
    /\ engOps' = engOps \ {i}
    /\ engCancel' = engCancel \ {i}
    /\ aioResult' = rv
    /\ tasks' = tasks \cup {i}
    /\ timer' = "none"
    /\ CASE ops[i].kind = "recv" /\ rv = 0 ->
              \* the engine hands over a received buffer
              /\ nextMsg <= MaxMsgs
              /\ aioMsg' = nextMsg
              /\ engOwned' = engOwned \cup {nextMsg}
              /\ nextMsg' = nextMsg + 1
              /\ gone' = gone
         [] ops[i].kind = "send" /\ rv = 0 ->
              \* the engine consumed the buffer
              /\ aioMsg' = NoMsg
              /\ engOwned' = engOwned \ {ops[i].msg}
              /\ gone' = gone \cup {ops[i].msg}
              /\ nextMsg' = nextMsg
         [] OTHER ->
              \* a failed send leaves the unsent buffer in the aio
              UNCHANGED <<aioMsg, engOwned, gone, nextMsg>>
    /\ last' = Quiet
    /\ UNCHANGED <<cellVars, ownVars, pc, held, ops, stopped, freed,
                   trampVars, uaf, aborted, timeout>>

----------------------------------------------------------------------------
\* The trampoline and the bounce closure

\* The classification with the two arms of a sleep exchanged.
Classify_SleepSwapped(st, rv, msgp) ==
    CASE st = "Sending" /\ rv = 0 -> Res("SendOk", NoMsg, NoErr)
      [] st = "Sending" /\ rv # 0 ->
            IF msgp = NoMsg THEN Res("panic", NoMsg, NoErr)
            ELSE Res("SendErr", msgp, ErrorFromCode(rv))
      [] st = "Receiving" /\ rv = 0 ->
            IF msgp = NoMsg THEN Res("panic", NoMsg, NoErr)
            ELSE Res("RecvOk", msgp, NoErr)
      [] st = "Receiving" /\ rv # 0 -> Res("RecvErr", NoMsg, ErrorFromCode(rv))
      [] st = "Sleeping" /\ rv # 0 -> Res("SleepOk", NoMsg, NoErr)
      [] st = "Sleeping" /\ rv = 0 -> Res("SleepErr", NoMsg, ErrorFromCode(rv))
      [] OTHER -> Res("panic", NoMsg, NoErr)

\* The result for the state found under the lock, the engine's status and
\* the aio's message pointer. NonNull::new(msgp).unwrap() and unreachable!()
\* panic.
Classify(st, rv, msgp) ==
    CASE st = "Sending" /\ rv = 0 -> Res("SendOk", NoMsg, NoErr)
      [] st = "Sending" /\ rv # 0 ->
            IF msgp = NoMsg THEN Res("panic", NoMsg, NoErr)
            ELSE Res("SendErr", msgp, ErrorFromCode(rv))
      [] st = "Receiving" /\ rv = 0 ->
            IF msgp = NoMsg THEN Res("panic", NoMsg, NoErr)
            ELSE Res("RecvOk", msgp, NoErr)
      [] st = "Receiving" /\ rv # 0 -> Res("RecvErr", NoMsg, ErrorFromCode(rv))
      [] st = "Sleeping" /\ rv = 0 -> Res("SleepOk", NoMsg, NoErr)
      [] st = "Sleeping" /\ rv # 0 -> Res("SleepErr", NoMsg, ErrorFromCode(rv))
      [] OTHER -> Res("panic", NoMsg, NoErr)

\* The engine hands a dispatched task to a worker that runs nothing; the
\* workers are interchangeable, so it is the first such in EngOrder.
FreeWorker ==
    IF \A k \in 1..Len(EngOrder) : pc[EngOrder[k]] # "idle" THEN NoThread
    ELSE EngOrder[CHOOSE k \in 1..Len(EngOrder) :
                     /\ pc[EngOrder[k]] = "idle"
                     /\ \A j \in 1..(k - 1) : pc[EngOrder[j]] # "idle"]

\* The inner frame without the lock taken.
LockBy_Nobody(e) == NoThread

\* cb_aio.inner.lock(): the thread holding the lock in the inner frame.
LockBy(e) == e

\* The bounce closure leaving the state as it found it.
BounceReset_Keep == state

\* The state the bounce closure leaves in the cell.
BounceReset == "Inactive"

\* An engine thread runs the dispatched task: the trampoline calls the bounce
\* closure, which locks the cell, reads the status, classifies and resets the
\* state. A panic is caught by the trampoline, which aborts the process.
TrampolineLock(e, i) ==
    /\ UNCHANGED <<sockVars, convVars, ptrCopy>>
    /\ ~aborted
    /\ e = FreeWorker
    /\ i \in tasks
    /\ lock = NoThread
    /\ tasks' = tasks \ {i}
    /\ uaf' = (uaf \/ closure = "freed")
    /\ LET res == Classify(state, aioResult, aioMsg) IN
       IF res.tag = "panic"
       THEN /\ aborted' = TRUE
            /\ UNCHANGED <<state, lock, pc, held, engOwned, handled, cur>>
       ELSE /\ aborted' = aborted
            /\ lock' = LockBy(e)
            /\ state' = BounceReset
            /\ cur' = [cur EXCEPT ![e] =
                         [op |-> i, st |-> state, rv |-> aioResult, res |-> res]]
            /\ held' = [held EXCEPT ![e] =
                          IF res.msg = NoMsg THEN {} ELSE {res.msg}]
            /\ engOwned' = engOwned \ {res.msg}
            /\ handled' = handled \cup {i}
            /\ pc' = [pc EXCEPT ![e] = "locked"]
    /\ last' = Quiet
    /\ UNCHANGED timeVars
    /\ UNCHANGED <<handle, phase, ownVars, nextMsg, gone, ops, engOps,
                   engCancel, aioResult, aioMsg, stopped, freed,
                   invoked, cbDid>>

\* The bounce closure calling the user callback inside its locked block.
InvokeLock_Held(e) == e

\* The holder of the lock while the user callback runs: the guard is dropped
\* at the end of the inner block, before the callback is called.
InvokeLock(e) == NoThread

\* The bounce closure starting the operation again when it failed.
TrampolineInvoke_Restart(e) ==
    /\ UNCHANGED <<sockVars, convVars, ptrCopy>>
    /\ ~aborted
    /\ pc[e] = "locked"
    /\ lock' = NoThread
    /\ invoked' = [invoked EXCEPT ![cur[e].op] = @ + 1]
    /\ cbDid' = [cbDid EXCEPT ![e] = FALSE]
    /\ pc' = [pc EXCEPT ![e] = "callback"]
    /\ last' = Quiet
    /\ IF cur[e].rv # 0 /\ Len(ops) < MaxOps /\ state = "Inactive"
       THEN /\ EngineStart(ops[cur[e].op].kind, NoMsg)
            /\ state' = cur[e].st
       ELSE UNCHANGED <<state, ops, engOps, timer>>
    /\ UNCHANGED timeout
    /\ UNCHANGED <<handle, phase, ownVars, msgVars, engCancel, engOwned,
                   aioResult, aioMsg, tasks, stopped, freed, handled,
                   cur, uaf, aborted>>

\* The inner frame ends, which releases the lock, and the user callback is
\* called with cb_aio and the result.
TrampolineInvoke(e) ==
    /\ UNCHANGED <<sockVars, convVars, ptrCopy>>
    /\ ~aborted
    /\ pc[e] = "locked"
    /\ lock' = InvokeLock(e)
    /\ invoked' = [invoked EXCEPT ![cur[e].op] = @ + 1]
    /\ cbDid' = [cbDid EXCEPT ![e] = FALSE]
    /\ pc' = [pc EXCEPT ![e] = "callback"]
    /\ last' = Quiet
    /\ UNCHANGED timeVars
    /\ UNCHANGED <<state, handle, phase, ownVars, msgVars, engVars, handled,
                   cur, uaf, aborted>>

\* The user callback returns; the result and any buffer still in it are
\* dropped.
CallbackReturn(e) ==
    /\ UNCHANGED <<sockVars, convVars, ptrCopy>>
    /\ ~aborted
    /\ pc[e] = "callback"
    /\ pc' = [pc EXCEPT ![e] = "idle"]
    /\ gone' = gone \cup held[e]
    /\ held' = [held EXCEPT ![e] = {}]
    /\ cur' = [cur EXCEPT ![e] = NoCur]
    /\ cbDid' = [cbDid EXCEPT ![e] = FALSE]
    /\ ops' = [ops EXCEPT ![cur[e].op] = Retired]
    /\ last' = Quiet
    /\ UNCHANGED timeVars
    /\ UNCHANGED <<cellVars, ownVars, nextMsg, engOps, engCancel,
                   engOwned, aioResult, aioMsg, tasks, stopped, freed,
                   handled, invoked, uaf, aborted>>

\* The trampoline without the abort.
TrampolineCatch_Ignore(panicked) == FALSE

\* catch_unwind around the closure: the process aborts when it panicked.
TrampolineCatch(panicked) == panicked

\* The user callback panics. The trampoline catches the unwinding and aborts
\* the process; without that the unwinding would go on into the engine.
CallbackPanic(e) ==
    /\ UNCHANGED <<sockVars, convVars, ptrCopy>>
    /\ ~aborted
    /\ pc[e] = "callback"
    /\ aborted' = TrampolineCatch(TRUE)
    /\ pc' = IF TrampolineCatch(TRUE) THEN pc ELSE [pc EXCEPT ![e] = "idle"]
    /\ last' = Quiet
    /\ UNCHANGED timeVars
    /\ UNCHANGED <<cellVars, ownVars, msgVars, engVars, trampVars, uaf>>

----------------------------------------------------------------------------
\* Drop for Aio, followed by the drop of its fields

\* Arc::get_mut(a).is_some(): this handle is the only owner of the callback.
IsUnique(strong) == strong = 1

\* The drop holding the cell's lock across nng_aio_stop.
StopLock_Held == AppCaller

\* The holder of the cell's lock while the drop is inside nng_aio_stop: the
\* guard taken to read the pointer is released at the end of that statement.
StopLock == NoThread

\* Drop::drop of a handle held by an application thread. The unique owner
\* reads the pointer under the lock, releases the lock and calls
\* nng_aio_stop, which aborts what is outstanding and lets nothing new start.
\* Any other owner does nothing.
DropBegin ==
    /\ UNCHANGED <<sockVars, convVars>>
    /\ ~aborted
    /\ handles["idle"] > 0
    /\ IF IsUnique(cbStrong)
       THEN /\ lock = NoThread
            /\ lock' = StopLock
            /\ ptrCopy' = PtrRead
            /\ stopped' = TRUE
            /\ engCancel' = engOps
            /\ handles' = [handles EXCEPT !["idle"] = @ - 1,
                                          !["stopping"] = @ + 1]
       ELSE /\ handles' = [handles EXCEPT !["idle"] = @ - 1,
                                          !["fields"] = @ + 1]
            /\ UNCHANGED <<lock, ptrCopy, stopped, engCancel>>
    /\ last' = Quiet
    /\ UNCHANGED timeVars
    /\ UNCHANGED <<state, handle, phase, cbStrong, closure, stopRet, pc,
                   msgVars, ops, engOps,
                   engOwned, aioResult, aioMsg, tasks, freed, trampVars, uaf,
                   aborted>>

\* nng_aio_stop returns once nothing is outstanding and no callback runs.
DropStopReturn ==
    /\ UNCHANGED <<sockVars, convVars>>
    /\ ~aborted
    /\ handles["stopping"] > 0
    /\ engOps = {} /\ tasks = {}
    /\ \A e \in Eng : pc[e] = "idle"
    /\ handles' = [handles EXCEPT !["stopping"] = @ - 1, !["fields"] = @ + 1]
    /\ stopRet' = TRUE
    /\ ptrCopy' = IF handles["waiting"] + handles["stopping"] > 1
                  THEN ptrCopy ELSE "none"
    /\ lock' = IF lock = AppCaller THEN NoThread ELSE lock
    /\ last' = Quiet
    /\ UNCHANGED timeVars
    /\ UNCHANGED <<state, handle, phase, cbStrong, closure, pc, msgVars,
                   engVars, trampVars, uaf, aborted>>

\* The fields are dropped: the handle gives up its references. The last
\* reference to the callback releases the closure and with it cb_aio, the
\* last reference to the cell, whose drop frees the aio.
DropFields ==
    /\ UNCHANGED <<sockVars, convVars, ptrCopy>>
    /\ ~aborted
    /\ handles["fields"] > 0
    /\ handles' = [handles EXCEPT !["fields"] = @ - 1]
    /\ cbStrong' = cbStrong - 1
    /\ IF cbStrong = 1
       THEN /\ closure' = "freed"
            /\ freed' = InnerDropFrees(state)
            /\ stopped' = (stopped \/ InnerDropFrees(state))
            /\ engCancel' = IF InnerDropFrees(state) THEN engOps ELSE engCancel
       ELSE UNCHANGED <<closure, freed, stopped, engCancel>>
    /\ UNCHANGED stopRet
    /\ last' = Quiet
    /\ UNCHANGED timeVars
    /\ UNCHANGED <<cellVars, pc, msgVars, ops, engOps, engOwned, aioResult,
                   aioMsg, tasks, trampVars, uaf, aborted>>

----------------------------------------------------------------------------
\* Socket (src/nng/src/socket.rs)

\* enum Protocol
Protocols == {"Bus0", "Pair0", "Pair1", "Pub0", "Pull0", "Push0", "Rep0",
              "Req0", "Respondent0", "Sub0", "Surveyor0"}

\* The match of Socket::new: the protocol whose engine constructor
\* (nng_<protocol>_open) is called for variant t.
ProtocolOpen(t) ==
    CASE t = "Bus0" -> "Bus0"
      [] t = "Pair0" -> "Pair0"
      [] t = "Pair1" -> "Pair1"
      [] t = "Pub0" -> "Pub0"
      [] t = "Pull0" -> "Pull0"
      [] t = "Push0" -> "Pull0"
      [] t = "Rep0" -> "Rep0"
      [] t = "Req0" -> "Req0"
      [] t = "Respondent0" -> "Respondent0"
      [] t = "Sub0" -> "Sub0"
      [] t = "Surveyor0" -> "Surveyor0"

\* The status codes of the engine's constructors: success, NNG_ENOMEM.
OpenCodes == {0, 2}

\* The status codes of nng_sendmsg: success, NNG_ETIMEDOUT, and NNG_EAGAIN
\* when the call was made with NNG_FLAG_NONBLOCK.
SendCodes(nonblocking) == IF nonblocking THEN {0, 5, 8} ELSE {0, 5}

\* rv2res!(rv, value)
Rv2Res(rv) == IF rv # 0 THEN ErrorFromCode(rv) ELSE "Ok"

\* Socket::new(t): the engine's constructor answers rv.
Socket_new(t, rv) ==
    /\ socket' = IF Rv2Res(rv) = "Ok"
                 THEN [proto |-> ProtocolOpen(t), nonblocking |-> FALSE]
                 ELSE socket
    /\ sret' = [NoSockCall EXCEPT !.call = "new", !.proto = t,
                                  !.opened = ProtocolOpen(t), !.rv = rv,
                                  !.val = Rv2Res(rv)]
    /\ UNCHANGED <<aioVars, convVars>>

Socket_set_nonblocking(nonblocking) ==
    /\ socket # NoSocket
    /\ socket' = [socket EXCEPT !.nonblocking = nonblocking]
    /\ sret' = NoSockCall
    /\ UNCHANGED <<aioVars, convVars>>

\* Socket::send returning Ok(()) whatever the engine answered.
SendResult_AlwaysOk(rv, data) ==
    [val |-> "Ok", msg |-> NoMsg, err |-> NoErr]

\* The value Socket::send returns for the engine's status rv.
SendResult(rv, data) ==
    IF rv # 0
    THEN [val |-> "Err", msg |-> data, err |-> ErrorFromCode(rv)]
    ELSE [val |-> "Ok", msg |-> NoMsg, err |-> NoErr]

\* Socket::send(data): nng_sendmsg answers rv.
Socket_send(data, rv) ==
    /\ socket # NoSocket
    /\ rv \in SendCodes(socket.nonblocking)
    /\ sret' = [NoSockCall EXCEPT !.call = "send", !.proto = socket.proto,
                                  !.rv = rv, !.arg = data,
                                  !.val = SendResult(rv, data).val,
                                  !.msg = SendResult(rv, data).msg,
                                  !.err = SendResult(rv, data).err]
    /\ UNCHANGED socket
    /\ UNCHANGED <<aioVars, convVars>>

NextSocket ==
    \/ \E t \in Protocols : \E rv \in OpenCodes : Socket_new(t, rv)
    \/ \E b \in BOOLEAN : Socket_set_nonblocking(b)
    \/ \E data \in Msgs : \E rv \in {0, 5, 8} : Socket_send(data, rv)

\* The synchronous socket alone.
SpecSocket == Init /\ [][NextSocket]_vars

----------------------------------------------------------------------------
\* The conversion of an AioResult into Result<Option<Message>>

\* The errors an AioResult can carry.
Errors == {ErrorFromCode(rv) : rv \in {1, 2, 5, 8, 20}}

\* enum AioResult: SendOk, SendErr(Message, Error), RecvOk(Message),
\* RecvErr(Error), SleepOk, SleepErr(Error).
AioResults ==
    {Res("SendOk", NoMsg, NoErr), Res("SleepOk", NoMsg, NoErr)}
    \cup {Res("SendErr", m, e) : m \in Msgs, e \in Errors}
    \cup {Res("RecvOk", m, NoErr) : m \in Msgs}
    \cup {Res(tag, NoMsg, e) : tag \in {"RecvErr", "SleepErr"}, e \in Errors}

\* The conversion with a successful receive giving Ok(None).
from_RecvNone(res) ==
    CASE res.tag \in {"SendOk", "SleepOk"} ->
            [val |-> "Ok", msg |-> NoMsg, err |-> NoErr]
      [] res.tag \in {"SendErr", "RecvErr", "SleepErr"} ->
            [val |-> "Err", msg |-> NoMsg, err |-> res.err]
      [] res.tag = "RecvOk" ->
            [val |-> "Ok", msg |-> NoMsg, err |-> NoErr]

\* From<AioResult>::from: the match on the result. Ok(None) has no message,
\* Ok(Some(m)) has m, Err(e) has e.
from(res) ==
    CASE res.tag \in {"SendOk", "SleepOk"} ->
            [val |-> "Ok", msg |-> NoMsg, err |-> NoErr]
      [] res.tag \in {"SendErr", "RecvErr", "SleepErr"} ->
            [val |-> "Err", msg |-> NoMsg, err |-> res.err]
      [] res.tag = "RecvOk" ->
            [val |-> "Ok", msg |-> res.msg, err |-> NoErr]

\* The buffers the match binds to no name (the `_` of SendErr(_, e)): they
\* are dropped when the consumed AioResult goes out of scope.
from_Unbound(res) == IF res.tag = "SendErr" THEN {res.msg} ELSE {}

\* A completed operation's result reaches a caller that has none in hand.
\* The buffer it carries is a live one; the caller takes the buffer out of
\* the Result it converted before.
AioResult_arrives(res) ==
    /\ aio_res = NoRes
    /\ res.msg \in {NoMsg} \cup (Msgs \ (dropped \cup taken \cup {converted.msg}))
    /\ aio_res' = res
    /\ converted' = NoConv
    /\ taken' = taken \cup ({converted.msg} \ {NoMsg})
    /\ UNCHANGED dropped
    /\ UNCHANGED <<aioVars, sockVars>>

\* aio_res.into(): the AioResult is consumed.
AioResult_into ==
    /\ aio_res # NoRes
    /\ converted' = from(aio_res)
    /\ dropped' = dropped \cup from_Unbound(aio_res)
    /\ aio_res' = NoRes
    /\ UNCHANGED taken
    /\ UNCHANGED <<aioVars, sockVars>>

NextConvert ==
    \/ \E res \in AioResults : AioResult_arrives(res)
    \/ AioResult_into

\* The conversion alone.
SpecConvert == Init /\ [][NextConvert]_vars

----------------------------------------------------------------------------
Next ==
    \/ \E a \in {<<0, "aio">>, <<2, "null">>, <<2, "aio">>} : Aio_new(a[1], a[2])
    \/ \E t \in Callers : Aio_sleep(t)
    \/ \E t \in Callers : \E m \in Msgs : Aio_send_socket(t, m)
    \/ \E t \in Callers : Aio_recv_socket(t)
    \/ \E t \in Callers : \E m \in Msgs : Aio_send_ctx(t, m)
    \/ \E t \in Callers : Aio_recv_ctx(t)
    \/ \E t \in Callers : Aio_cancel(t)
    \/ \E t \in Callers : Aio_try_clone(t)
    \/ \E t \in Callers : \E dur \in {"None", "Some"} : Aio_set_timeout(t, dur)
    \/ TimerExpire
    \/ \E i \in 1..MaxOps : \E rv \in RvCodes : EngineComplete(i, rv)
    \/ \E e \in Eng : \E i \in 1..MaxOps : TrampolineLock(e, i)
    \/ \E e \in Eng : TrampolineInvoke(e)
    \/ \E e \in Eng : CallbackReturn(e)
    \/ \E e \in Eng : CallbackPanic(e)
    \/ Aio_wait
    \/ WaitReturn
    \/ DropBegin
    \/ DropStopReturn
    \/ DropFields

Spec == Init /\ [][Next]_vars

SpecCalls == InitCalls /\ [][Next]_vars

\* What the schedulers guarantee: the engine completes an operation whose
\* abort was requested or that can complete, a dispatched task is run by a
\* free worker, a thread that runs goes on running (the bounce closure leaves
\* its locked section, the user callback returns), and a blocking engine call
\* returns once what it waits for has happened.
Fairness ==
    /\ WF_vars(\E i \in 1..MaxOps : \E rv \in RvCodes : EngineComplete(i, rv))
    /\ WF_vars(\E e \in Eng : \E i \in 1..MaxOps : TrampolineLock(e, i))
    /\ WF_vars(\E e \in Eng : TrampolineInvoke(e))
    /\ WF_vars(\E e \in Eng : CallbackReturn(e))
    /\ WF_vars(DropStopReturn)
    /\ WF_vars(WaitReturn)

\* The program with its threads and the engine scheduled fairly.
SpecLive == Init /\ [][Next]_vars /\ Fairness

----------------------------------------------------------------------------
\* Properties

StartCalls == {"sleep", "send_socket", "recv_socket", "send_ctx", "recv_ctx"}
SendCalls == {"send_socket", "send_ctx"}

InTrampoline(e) == pc[e] \in {"locked", "callback"}

\* C1: a start operation (sleep, send or recv, on a socket or a context)
\* issued while an operation that was started has not yet had its completion
\* handled by the trampoline returns TryAgain.
C1_StartWhileBusyFails ==
    (last.call \in StartCalls /\ last.busy) => last.val = "TryAgain"

\* C1 witness: with two handles alive, an application thread's start was
\* rejected while an operation was outstanding.
C1_Witness ==
    /\ last.call \in StartCalls /\ last.busy /\ last.val = "TryAgain"
    /\ last.by = "app" /\ TotalHandles = 2

\* Nothing is outstanding in the engine, no callback task is dispatched and
\* no engine thread is in the trampoline.
Quiescent == engOps = {} /\ tasks = {} /\ \A e \in Eng : pc[e] = "idle"

\* C2 (as claimed): the user callback is invoked exactly once for every
\* operation a start call accepted: never more than once, and once the cell
\* is torn down and the engine is quiescent, so that no invocation can
\* follow, not zero times.
C2_ExactlyOnce ==
    \A i \in 1..Len(ops) :
        /\ invoked[i] <= 1
        /\ (closure = "freed" /\ Quiescent) => invoked[i] = 1

\* C3 (as claimed): once the drop of the last callback-owning handle has
\* returned, nothing is outstanding and no invocation of the user callback is
\* executing or still to begin.
C3_DropWaitsForCallback == closure = "freed" => Quiescent

\* C4 (as claimed): two invocations of the user callback never execute at the
\* same time.
C4_NoConcurrentCallbacks ==
    Cardinality({e \in Eng : pc[e] = "callback"}) <= 1

\* C4 (amended): the trampoline's locked sections never overlap, and engine
\* threads that are in the trampoline at the same time handle different
\* operations, the later of which was started after the earlier one's state
\* reset.
C4_Amended ==
    /\ Cardinality({e \in Eng : pc[e] = "locked"}) <= 1
    /\ \A e1, e2 \in Eng :
          (e1 # e2 /\ InTrampoline(e1) /\ InTrampoline(e2)) =>
             /\ cur[e1].op # cur[e2].op
             /\ pc[e1] = "callback" \/ pc[e2] = "callback"

\* C4 witness: two invocations of the user callback execute at the same time.
C4_Witness == \A e \in Eng : pc[e] = "callback"

\* C5: at most one operation is outstanding in the engine; every operation
\* but the latest has had its completion handled, so a start follows the
\* handling of the previous operation's completion; the state is Inactive
\* exactly when no started operation awaits that handling; no operation's
\* callback is invoked twice.
C5_StrictSequence ==
    /\ Cardinality(engOps) <= 1
    /\ \A i \in 1..Len(ops) : i < Len(ops) => i \in handled
    /\ phase = "live" => (state = "Inactive" <=> ~Busy)
    /\ \A i \in 1..MaxOps : invoked[i] <= 1

\* C5 witness: a second operation is outstanding after the first one's
\* completion was handled.
C5_Witness == Len(ops) = 2 /\ engOps = {2} /\ handled = {1}

\* C6: a send, on a socket or a context, that finds the state not Inactive
\* returns TryAgain with the buffer it was given, calls no engine starter and
\* changes nothing in the engine.
C6_SendWhileBusy ==
    (last.call \in SendCalls /\ last.pre # "Inactive") =>
        /\ last.val = "TryAgain"
        /\ last.same
        /\ last.starter = "none"
        /\ ~last.eng

\* C6 witness: a send on a context was rejected while a send was outstanding.
C6_Witness ==
    /\ last.call = "send_ctx" /\ last.pre = "Sending"
    /\ last.val = "TryAgain" /\ last.same

\* C7: the result of a send that completed with a non-zero status is SendErr
\* with the buffer passed to that send, which the callback then owns; the
\* result of a send that completed with status 0 is SendOk, with no buffer.
C7_SendResultBuffer ==
    \A e \in Eng :
        (InTrampoline(e) /\ ops[cur[e].op].kind = "send") =>
            IF cur[e].rv # 0
            THEN /\ cur[e].res.tag = "SendErr"
                 /\ cur[e].res.msg = ops[cur[e].op].msg
                 /\ cur[e].res.msg # NoMsg
            ELSE /\ cur[e].res.tag = "SendOk"
                 /\ cur[e].res.msg = NoMsg

\* C7 witness: a callback runs with SendErr for a send that failed.
C7_Witness ==
    \E e \in Eng :
        /\ pc[e] = "callback" /\ cur[e].res.tag = "SendErr"
        /\ cur[e].res.msg \in held[e]

\* The number of owners of buffer m: the callers holding it, the engine, and
\* its release.
Owners(m) ==
    Cardinality({t \in Callers : m \in held[t]})
    + (IF m \in engOwned THEN 1 ELSE 0)
    + (IF m \in gone THEN 1 ELSE 0)

\* The engine owns m and neither an outstanding operation nor a dispatched
\* completion will hand it back or send it.
Lost(m) == m \in engOwned /\ engOps = {} /\ tasks = {}

\* C8 (as claimed): every allocated buffer has exactly one owner and none is
\* lost.
C8_OneOwner ==
    \A m \in 1..(nextMsg - 1) : Owners(m) = 1 /\ ~Lost(m)

\* The result kind for each operation kind.
KindOf(tag) ==
    CASE tag \in {"SendOk", "SendErr"} -> "send"
      [] tag \in {"RecvOk", "RecvErr"} -> "recv"
      [] tag \in {"SleepOk", "SleepErr"} -> "sleep"
      [] OTHER -> "none"

\* C9: the result is determined by the state found under the lock and the
\* engine's status, by the table of the six cases, and its kind is the kind
\* of the operation that was started.
C9_Classification ==
    \A e \in Eng :
        InTrampoline(e) =>
            LET c == cur[e] IN
            /\ c.st = "Sending" /\ c.rv = 0 => c.res.tag = "SendOk"
            /\ c.st = "Sending" /\ c.rv # 0 =>
                  c.res.tag = "SendErr" /\ c.res.msg # NoMsg
            /\ c.st = "Receiving" /\ c.rv = 0 =>
                  c.res.tag = "RecvOk" /\ c.res.msg # NoMsg
            /\ c.st = "Receiving" /\ c.rv # 0 => c.res.tag = "RecvErr"
            /\ c.st = "Sleeping" /\ c.rv = 0 => c.res.tag = "SleepOk"
            /\ c.st = "Sleeping" /\ c.rv # 0 => c.res.tag = "SleepErr"
            /\ c.rv = 20 => c.res.err = "Canceled"
            /\ c.rv = 0 => c.res.err = NoErr
            /\ c.st \in {"Sending", "Receiving", "Sleeping"}
            /\ KindOf(c.res.tag) = ops[c.op].kind

\* C9 witness: a callback runs with RecvOk for a recv.
C9_Witness ==
    \E e \in Eng :
        /\ pc[e] = "callback" /\ cur[e].res.tag = "RecvOk"
        /\ ops[cur[e].op].kind = "recv"

\* C10: while the user callback runs the trampoline does not hold the lock
\* and the state it left is Inactive unless an operation was started since;
\* a start made from inside the callback, when no operation was started since
\* the completion it handles, returns Ok.
C10_StartInsideCallback ==
    /\ \A e \in Eng : pc[e] = "callback" => lock # e
    /\ \A e \in Eng : (pc[e] = "callback" /\ Fresh(e)) => state = "Inactive"
    /\ (last.by = "cb" /\ last.call \in StartCalls /\ last.fresh) =>
           last.val = "Ok"

\* C10 witness: a start made from inside the callback returned Ok.
C10_Witness ==
    /\ last.by = "cb" /\ last.call \in StartCalls /\ last.fresh
    /\ last.val = "Ok"

\* C11 (as claimed): the state is not Inactive at any point between the start
\* of an operation and the invocation of the user callback for it.
C11_InactiveAfterInvocation ==
    \A i \in 1..Len(ops) : invoked[i] = 0 => state # "Inactive"

\* C11 (amended): the state is not Inactive between the start of an operation
\* and the trampoline's handling of its completion, and after construction
\* the state becomes Inactive only in the step in which an engine thread
\* takes the lock to handle a completion, holding the lock, before the user
\* callback has been invoked for that operation.
C11_Amended ==
    /\ [](\A i \in 1..Len(ops) : i \notin handled => state # "Inactive")
    /\ [][(phase = "live" /\ state # "Inactive" /\ state' = "Inactive") =>
            \E e \in Eng :
                /\ pc[e] = "idle" /\ pc'[e] = "locked" /\ lock' = e
                /\ cur'[e].op \in handled' \ handled
                /\ invoked'[cur'[e].op] = 0]_vars

\* C11 witness: the trampoline holds the lock, has reset the state and has
\* not yet invoked the user callback.
C11_Witness ==
    \E e \in Eng :
        /\ pc[e] = "locked" /\ lock = e /\ state = "Inactive"
        /\ invoked[cur[e].op] = 0

\* C12: a cancel that finds the state Inactive, so that no operation is
\* outstanding, leaves the state Inactive and changes nothing in the engine,
\* in the trampoline, in the ownership of buffers or of the callback: no
\* completion, no dispatched task and no invocation comes of it; and a start
\* that finds the state Inactive returns Ok whatever cancels came before.
C12_CancelIdleNoOp ==
    /\ [][\A t \in Callers :
            (Aio_cancel(t) /\ state = "Inactive") =>
                /\ state' = "Inactive"
                /\ UNCHANGED <<engVars, timeVars, ownVars, msgVars, pc,
                               handled, invoked, cur>>]_vars
    /\ []((last.call \in StartCalls /\ last.pre = "Inactive") =>
             last.val = "Ok")

\* C12 witness: a cancel has returned that found the state Inactive with an
\* earlier operation already handled.
C12_Witness ==
    /\ last.call = "cancel" /\ last.pre = "Inactive" /\ state = "Inactive"
    /\ handled # {} /\ engOps = {} /\ tasks = {}

\* The error variants of the result.
ErrTags == {"SendErr", "RecvErr", "SleepErr"}

\* C13 (as claimed): a cancel called while an operation is outstanding, the
\* state being other than Inactive, returns without running the callback and
\* without changing the state; the completion of the operation is still on
\* its way to the trampoline afterwards (the operation is outstanding in the
\* engine or its callback task is dispatched), so that its callback fires
\* later, and it never fires twice; a completion with NNG_ECANCELED is
\* handled as the error variant of the operation's kind, with Canceled.
C13_CancelOutstanding ==
    /\ [][\A t \in Callers :
            (Aio_cancel(t) /\ state # "Inactive") =>
                /\ state' = state
                /\ UNCHANGED <<invoked, pc, tasks, handled, cur>>]_vars
    /\ []((last.call = "cancel" /\ last.pre # "Inactive") =>
             \E i \in 1..Len(ops) :
                 i \notin handled /\ (i \in engOps \/ i \in tasks))
    /\ [](\A i \in 1..MaxOps : invoked[i] < 2)
    /\ [](\A e \in Eng :
             (InTrampoline(e) /\ cur[e].rv = 20) =>
                 /\ cur[e].res.tag \in ErrTags
                 /\ KindOf(cur[e].res.tag) = ops[cur[e].op].kind
                 /\ cur[e].res.err = "Canceled")

C15_Wait ==
    /\ [][(Aio_wait \/ WaitReturn) =>
            UNCHANGED <<state, handle, phase, engVars, timeVars, trampVars,
                        msgVars, pc>>]_vars
    /\ [][WaitReturn => WaitDone]_vars
    /\ [](last.call = "wait" =>
             /\ engOps = {} /\ tasks = {}
             /\ state = last.pre /\ ~last.eng)
    /\ []((handles["waiting"] > 0 /\ WaitDone /\ ~aborted) =>
             ENABLED WaitReturn)

\* C15 witness: a wait has returned after an operation was started, completed
\* and its callback invoked.
C15_Witness ==
    /\ last.call = "wait" /\ Len(ops) > 0 /\ invoked[Len(ops)] = 1
    /\ state = "Inactive"

\* C16 (as claimed): set_timeout changes neither the state nor the operation
\* that is outstanding nor its timer; an operation started while a timeout
\* is set is started with a timer, and one started while none is set has no
\* deadline; an operation whose deadline has passed, unless its abort was
\* requested, completes with NNG_ETIMEDOUT, and no other does; and a
\* completion with NNG_ETIMEDOUT is handled once, as the error variant of the
\* operation's kind, with TimedOut.
C16_Timeout ==
    /\ [][\A t \in Callers : \A dur \in {"None", "Some"} :
            Aio_set_timeout(t, dur) =>
                /\ state' = state
                /\ timeout' = IF dur = "None" THEN "infinite" ELSE "ms"
                /\ UNCHANGED <<engVars, timer, handled, invoked, pc>>]_vars
    /\ []((last.call \in StartCalls /\ last.val = "Ok") =>
             IF timeout = "ms"
             THEN Len(ops) \in engOps /\ timer \in {"to", "dur"}
             ELSE timer \in {"none", "dur"})
    /\ [][\A i \in engOps \ engOps' :
            /\ aioResult' = 5 => timer = "due_to"
            /\ (timer = "due_to" /\ i \notin engCancel) => aioResult' = 5]_vars
    /\ [](\A e \in Eng :
             (InTrampoline(e) /\ cur[e].rv = 5) =>
                 /\ cur[e].res.tag \in ErrTags
                 /\ KindOf(cur[e].res.tag) = ops[cur[e].op].kind
                 /\ cur[e].res.err = "TimedOut"
                 /\ invoked[cur[e].op] \in {0, 1})

\* C17 (as claimed): a sleep completes with status 0 only once its duration
\* has run out, and then it is handled as SleepOk; a sleep whose abort was
\* not requested and whose deadline has not passed completes with status 0
\* and no other; and the callback is invoked for every accepted sleep, so
\* that once the cell is torn down and the engine is quiescent no sleep is
\* left whose callback was not invoked.
C17_SleepOk ==
    /\ [][\A i \in engOps \ engOps' :
            ops[i].kind = "sleep" =>
                /\ aioResult' = 0 => timer = "due_dur"
                /\ (i \notin engCancel /\ timer # "due_to") =>
                       aioResult' = 0]_vars
    /\ [](\A e \in Eng :
             (InTrampoline(e) /\ ops[cur[e].op].kind = "sleep"
              /\ cur[e].rv = 0) =>
                 cur[e].res = Res("SleepOk", NoMsg, NoErr))
    /\ [](\A i \in 1..Len(ops) :
             (ops[i].kind = "sleep" /\ closure = "freed" /\ Quiescent) =>
                 invoked[i] = 1)

\* C18: a panic of the user callback aborts the process in the same step: the
\* engine thread does not leave the callback, and once the process has
\* aborted no engine thread moves and no callback is invoked.
C18_PanicAborts ==
    /\ [][\A e \in Eng :
            CallbackPanic(e) =>
                aborted' /\ pc'[e] = "callback" /\ invoked' = invoked]_vars
    /\ [][aborted => (aborted' /\ pc' = pc /\ invoked' = invoked
                      /\ tasks' = tasks)]_vars

\* C18 witness: the process has aborted with an engine thread inside the user
\* callback and another completion's callback task dispatched, not run.
C18_Witness ==
    /\ aborted /\ tasks # {}
    /\ \E e \in Eng : pc[e] = "callback" /\ invoked[cur[e].op] = 1

\* C19: when the engine's allocation fails, Aio::new returns an error and no
\* handle exists; the error is Unknown when the engine returned an aio
\* together with its failure code, and the error of the code otherwise; the
\* cell is destroyed in state Building with its placeholder pointer, and the
\* engine's free is not called.
C19_AllocFailure ==
    /\ phase \in {"failed", "leaked"} =>
          /\ state = "Building" /\ handle = "dangling"
          /\ TotalHandles = 0 /\ cbStrong = 0 /\ closure = "none"
          /\ ~freed /\ ~stopped
    /\ last.call = "new" =>
          /\ last.val = "Ok" <=> phase = "live"
          /\ phase = "leaked" => last.val = "Unknown"
          /\ phase = "failed" => last.val = "OutOfMemory"

\* C19 witness: Aio::new has returned Unknown after the engine returned an
\* aio together with a failure code.
C19_Witness ==
    last.call = "new" /\ last.val = "Unknown" /\ phase = "leaked"

\* C20: the engine's free is called for a cell only when it was constructed,
\* only when no handle to the cell is left, and only after a call of the
\* engine's stop on the aio has returned; once called it is not called again.
C20_FreeAfterStop ==
    /\ [](freed => (phase = "live" /\ state # "Building"
                    /\ TotalHandles = 0 /\ closure = "freed" /\ stopRet))
    /\ [][freed => (freed' /\ closure' = closure /\ cbStrong' = cbStrong)]_vars

\* C21: a drop of the unique callback-owning handle that has called the
\* engine's stop eventually returns from it, whatever the trampoline is doing
\* at the time, unless the process aborts; the user callback is taken to
\* return.
C21_ShutdownReturns ==
    (handles["stopping"] > 0) ~> (handles["stopping"] = 0 \/ aborted)

\* C21 witness: the drop is inside the engine's stop while the user callback
\* for an operation that was outstanding is executing.
C21_Witness ==
    /\ handles["stopping"] > 0 /\ ~aborted
    /\ \E e \in Eng : pc[e] = "callback"

\* C22: a start that returns TryAgain has called no engine starter and changed
\* nothing in the engine; an engine starter is called only in a step that is
\* a start call of the application or of the callback, which returns Ok and
\* starts one operation; no step of the trampoline, nor any other step,
\* starts an operation.
C22_NoAutoRetry ==
    /\ [](last.call \in StartCalls /\ last.val = "TryAgain" =>
            last.starter = "none" /\ ~last.eng)
    /\ [][Len(ops') # Len(ops) =>
            /\ Len(ops') = Len(ops) + 1
            /\ last'.call \in StartCalls /\ last'.val = "Ok"
            /\ last'.starter # "none"]_vars
    /\ [][(pc' # pc \/ last'.call \notin StartCalls \/ last'.val # "Ok") =>
            (Len(ops') = Len(ops) /\ engOps' \subseteq engOps)]_vars

\* C22 witness: a start has returned TryAgain while a callback runs with the
\* error result of an operation that was aborted.
C22_Witness ==
    /\ last.call \in StartCalls /\ last.val = "TryAgain" /\ ~last.eng
    /\ \E e \in Eng : pc[e] = "callback" /\ cur[e].rv # 0

\* C23 (as claimed): Socket::new opens, for every Protocol variant, a socket
\* with the engine constructor of that same protocol.
C23_ProtocolConstructor ==
    sret.call = "new" => sret.opened = sret.proto

\* C24: Socket::send returns Ok(()) when the engine's status is 0, and for
\* every other status Err with the message it was passed and the error of
\* that status.
C24_SocketSend ==
    sret.call = "send" =>
        IF sret.rv = 0
        THEN sret.val = "Ok" /\ sret.msg = NoMsg /\ sret.err = NoErr
        ELSE /\ sret.val = "Err" /\ sret.msg = sret.arg /\ sret.msg # NoMsg
             /\ sret.err = ErrorFromCode(sret.rv) /\ sret.err # NoErr

\* C24 witness: a nonblocking send has returned Err(TryAgain) with the message
\* it was passed.
C24_Witness ==
    /\ sret.call = "send" /\ sret.val = "Err" /\ sret.err = "TryAgain"
    /\ sret.msg = sret.arg /\ socket.nonblocking

\* The states of an operation in progress.
Active == {"Sending", "Receiving", "Sleeping"}

Blocked == handles["waiting"] + handles["stopping"] > 0

\* C26: while a thread is inside the engine's wait or stop, no application
\* thread holds the cell's lock: the lock is free or held by a trampoline in
\* its locked section, which leaves it without waiting for anything, so that
\* a free worker with a dispatched completion can take the lock.
C26_NoLockWhileBlocked ==
    Blocked =>
        /\ lock # AppCaller
        /\ lock # NoThread => (lock \in Eng /\ pc[lock] = "locked")
        /\ \A e \in Eng : (pc[e] = "locked" /\ ~aborted) =>
                             ENABLED TrampolineInvoke(e)
        /\ (tasks # {} /\ FreeWorker # NoThread /\ ~aborted
             /\ \A e \in Eng : pc[e] # "locked") =>
               ENABLED (\E e \in Eng : \E i \in 1..MaxOps : TrampolineLock(e, i))

\* C26 witness: a trampoline holds the lock while a thread is inside wait.
C26_Witness ==
    /\ handles["waiting"] > 0
    /\ \E e \in Eng : pc[e] = "locked" /\ lock = e

\* C27 (as claimed): whatever the interleaving of the drops of the remaining
\* callback-owning handles, a call of the engine's stop has returned before
\* the closure is released and before the engine's free is called, and the
\* closure is not released while an engine thread is in the trampoline.
C27_ConcurrentDrops ==
    /\ [](closure = "freed" => stopRet)
    /\ [](freed => stopped /\ stopRet)
    /\ [][(closure = "live" /\ closure' = "freed") =>
            \A e \in Eng : ~InTrampoline(e)]_vars

\* A step leaves alone what the engine's stop, cancel and free change, the
\* state, and what is outstanding or dispatched.
NoEngineCall ==
    /\ stopped' = stopped /\ engCancel' = engCancel /\ freed' = freed
    /\ state' = state /\ engOps' = engOps /\ tasks' = tasks

\* C28 (as claimed): the drop of a callback-owning handle that found itself
\* not the unique owner of the callback, both Drop::drop and the drop of its
\* fields, calls none of the engine's stop, cancel and free, leaves the state
\* as it is and leaves an outstanding operation outstanding.
C28_SharedDropNoOp ==
    /\ [][(DropBegin /\ ~IsUnique(cbStrong)) => NoEngineCall]_vars
    /\ [][(DropFields /\ ~stopRet /\ handles["stopping"] = 0) =>
            NoEngineCall]_vars

\* C29: once construction has succeeded, a step that sets the state to
\* Inactive is the trampoline taking the lock to handle a completion; the
\* lock is held by an engine thread exactly while that thread is in the
\* locked section, and no step that sets the state to Sending, Receiving or
\* Sleeping is taken while an engine thread is in its locked section.
C29_InactiveOnlyByTrampoline ==
    /\ [][(phase = "live" /\ state # "Inactive" /\ state' = "Inactive") =>
            \E e \in Eng : \E i \in 1..MaxOps : TrampolineLock(e, i)]_vars
    /\ [](\A e \in Eng : pc[e] = "locked" <=> lock = e)
    /\ [][(state' # state /\ state' \in Active) =>
            (lock = NoThread /\ lock' = NoThread
             /\ \A e \in Eng : pc[e] # "locked")]_vars

\* C29 witness: the trampoline has reset the state of a send to Inactive and
\* still holds the lock.
C29_Witness ==
    \E e \in Eng :
        /\ pc[e] = "locked" /\ lock = e
        /\ cur[e].st = "Sending" /\ state = "Inactive"

\* C30: the pointer stored in the cell by a successful allocation never
\* changes; a live cell holds the pointer the engine returned, and the
\* pointer a thread took from the cell before a blocking call is the cell's
\* pointer for as long as the call lasts.
C30_HandleNeverChanges ==
    /\ [][handle # "dangling" => handle' = handle]_vars
    /\ [](phase = "live" => handle = "aio")
    /\ [](Blocked => (ptrCopy = handle /\ ptrCopy = "aio"))

\* C30 witness: a drop is inside the engine's stop, called with the pointer
\* the allocation stored, after operations were started on the handle.
C30_Witness ==
    /\ handles["stopping"] > 0 /\ ptrCopy = "aio" /\ handle = "aio"
    /\ Len(ops) = MaxOps

\* C31: a step in which a start operation returns TryAgain leaves the state,
\* the pointer and the lock as they were, leaves the operation that is
\* outstanding, its timer, its abort request and its dispatched completion
\* alone, leaves the aio's message and result and the buffers the engine owns
\* alone, and adds no operation to those the starters were called for.
C31_TryAgainFrame ==
    [][(last'.call \in StartCalls /\ last'.val = "TryAgain") =>
        /\ state' = state /\ handle' = handle /\ lock' = lock
        /\ ops' = ops /\ engOps' = engOps /\ engCancel' = engCancel
        /\ tasks' = tasks /\ timer' = timer /\ timeout' = timeout
        /\ aioMsg' = aioMsg /\ aioResult' = aioResult
        /\ engOwned' = engOwned /\ gone' = gone
        /\ last'.starter = "none"]_vars

\* C31 witness: a recv on a context has returned TryAgain while a send is
\* outstanding with its message in the aio.
C31_Witness ==
    /\ last.call = "recv_ctx" /\ last.val = "TryAgain" /\ last.pre = "Sending"
    /\ state = "Sending" /\ engOps # {} /\ aioMsg # NoMsg
    /\ aioMsg \in engOwned

\* No engine thread is in the locked block of the bounce closure.
NoneLocked == \A e \in Eng : pc[e] # "locked"

\* A step in which a start operation, cancel or set_timeout returns.
CallStep ==
    \/ Len(ops') > Len(ops)
    \/ engCancel' # engCancel /\ engOps' = engOps /\ stopped' = stopped
    \/ timeout' # timeout

\* C32: the lock is held only by an engine thread in the locked block of the
\* bounce closure, which leaves it without waiting, so the lock always becomes
\* free again; with no engine thread in that block every caller's cancel,
\* set_timeout and (while the bound on operations allows a start) start
\* operation can return at once; and a step in which such a call returns runs
\* no part of the trampoline: no completion is classified and no callback is
\* invoked inside the call.
C32_CallsNeverBlock ==
    /\ [](lock # NoThread =>
            /\ lock \in Eng /\ pc[lock] = "locked"
            /\ ~aborted => ENABLED TrampolineInvoke(lock))
    /\ [](\A t \in Callers : (CanCancel(t) /\ NoneLocked) =>
            ENABLED Aio_cancel(t))
    /\ [](\A t \in Callers : (CanCall(t) /\ NoneLocked) =>
            /\ ENABLED Aio_set_timeout(t, "Some")
            /\ (state # "Inactive" \/ Len(ops) < MaxOps) =>
                  /\ ENABLED Aio_sleep(t)
                  /\ ENABLED Aio_recv_socket(t)
                  /\ ENABLED Aio_recv_ctx(t)
                  /\ \A m \in Sendable(t) :
                        ENABLED Aio_send_socket(t, m) /\ ENABLED Aio_send_ctx(t, m))
    /\ [][CallStep =>
            (pc' = pc /\ handled' = handled /\ invoked' = invoked
             /\ tasks' = tasks /\ lock' = lock)]_vars
    /\ (lock # NoThread) ~> (lock = NoThread \/ aborted)

\* C32 witness: a start made from inside the user callback has been accepted
\* while another engine thread has a completion dispatched to it.
C32_Witness ==
    \E e \in Eng :
        /\ pc[e] = "callback" /\ cbDid[e] /\ lock = NoThread
        /\ Len(ops) > cur[e].op /\ state \in Active

\* C33: a send returns Ok and leaves the state Sending when it found the state
\* Inactive, and otherwise returns TryAgain with its buffer and leaves the
\* state as it found it, whether it was issued against a socket or a context;
\* likewise a recv with Receiving; the two differ in the engine starter that
\* is called.
C33_SameStateMachine ==
    /\ last.call \in SendCalls =>
          /\ last.val = (IF last.pre = "Inactive" THEN "Ok" ELSE "TryAgain")
          /\ state = (IF last.pre = "Inactive" THEN "Sending" ELSE last.pre)
          /\ last.same = (last.pre # "Inactive")
          /\ last.eng = (last.pre = "Inactive")
          /\ last.starter =
                (IF last.pre # "Inactive" THEN "none"
                 ELSE IF last.call = "send_socket" THEN "nng_send_aio"
                 ELSE "nng_ctx_send")
    /\ last.call \in {"recv_socket", "recv_ctx"} =>
          /\ last.val = (IF last.pre = "Inactive" THEN "Ok" ELSE "TryAgain")
          /\ state = (IF last.pre = "Inactive" THEN "Receiving" ELSE last.pre)
          /\ last.eng = (last.pre = "Inactive")
          /\ last.starter =
                (IF last.pre # "Inactive" THEN "none"
                 ELSE IF last.call = "recv_socket" THEN "nng_recv_aio"
                 ELSE "nng_ctx_recv")

\* C33 witness: a send on a context was accepted after an earlier
\* operation's completion was handled.
C33_Witness ==
    /\ last.call = "send_ctx" /\ last.val = "Ok" /\ state = "Sending"
    /\ last.starter = "nng_ctx_send" /\ handled # {}

\* C34: converting an AioResult into Result<Option<Message>> gives Ok(None)
\* for SendOk and SleepOk, Ok(Some(m)) with the same message for RecvOk(m),
\* and Err(e) with the same error for SendErr(_, e), RecvErr(e) and
\* SleepErr(e); the buffer carried by SendErr is dropped, and no other buffer
\* is.
C34_Conversion ==
    [][AioResult_into =>
        /\ aio_res.tag \in {"SendOk", "SleepOk"} =>
              /\ converted' = [val |-> "Ok", msg |-> NoMsg, err |-> NoErr]
              /\ dropped' = dropped
        /\ aio_res.tag = "RecvOk" =>
              /\ converted' = [val |-> "Ok", msg |-> aio_res.msg, err |-> NoErr]
              /\ aio_res.msg # NoMsg
              /\ dropped' = dropped
        /\ aio_res.tag \in ErrTags =>
              /\ converted'.val = "Err" /\ converted'.err = aio_res.err
              /\ converted'.err \in Errors
              /\ converted'.msg = NoMsg
        /\ aio_res.tag = "SendErr" =>
              /\ aio_res.msg \in Msgs /\ aio_res.msg \notin dropped
              /\ dropped' = dropped \cup {aio_res.msg}
        /\ aio_res.tag \in {"RecvErr", "SleepErr"} => dropped' = dropped]_vars

\* C34 witness: a SendErr was converted into Err with its error, its buffer
\* dropped, after a RecvOk whose buffer the caller took.
C34_Witness ==
    /\ aio_res = NoRes /\ converted.val = "Err" /\ converted.err = "Canceled"
    /\ converted.msg = NoMsg /\ dropped # {} /\ taken # {}

====
